---- MODULE Spec2Model ----
(***************************************************************************)
(* BookingSaver: the message handler of bot.py with the calls it makes     *)
(* into scraper.py, google_maps_service.py, db.py and sheets.py.           *)
(*                                                                         *)
(* Conventions of the model                                                *)
(*   - text is a sequence of one-character strings, so that split and      *)
(*     quote_plus are computed character by character;                     *)
(*   - scores are carried in tenths (8.7 is 87) and every quotient of      *)
(*     append_row is an exact fraction [n, d]; binary floating point       *)
(*     rounding error is not modelled;                                     *)
(*   - every call into Selenium or the Sheets API may raise;               *)
(*   - the listings table exists (db.init_db has run), SQLite itself and   *)
(*     the Telegram reply call do not fail;                                *)
(*   - the overall score cell is a whole number of tenths, the price per   *)
(*     night cell a whole number of hundredths.                            *)
(*                                                                         *)
(* Specifications                                                          *)
(*   Spec            handle_message as main() runs it, one update at a time*)
(*   SpecConcurrent  invocations of handle_message interleaved at awaits   *)
(*   SpecDb          db.insert_listing and db.listing_exists called alone  *)
(*   SpecSheets      sheets.append_row called alone                        *)
(***************************************************************************)
EXTENDS Integers, Sequences, FiniteSets, Bags, TLC

VARIABLES
    store,      \* the listings table: a bag of rows (a table has no order)
    sheet,      \* the rows appended to the spreadsheet: a bag (no operation reads their order)
    sessions,   \* number of browser sessions currently open
    received,   \* number of messages handed to handle_message so far
    hs,         \* per invocation of handle_message: its locals and position
    calc        \* input and result of a direct call (db or sheets API)

vars == <<store, sheet, sessions, received, hs, calc>>

\* Python's None and SQL's NULL for a value: the empty tuple; a value x that
\* may be None is carried as <<x>>
None == <<>>
Some(x) == <<x>>

\* no label (no pending exception, no branch taken yet)
NULL == "None"

\* ------------------------------------------------------------------ bounds
MaxMessages == 2      \* messages handed to the bot
MaxMsgLen == 2        \* tokens of one message text
NumHandlers == 2      \* slots for invocations of handle_message
MaxRows == 3          \* rows of the table when db.insert_listing is driven directly
MaxCountSteps == 3    \* review counts range over 0, 50, .., 50 * MaxCountSteps (booking)
                      \* and 0, 100, .., 100 * MaxCountSteps (google)
MaxLeaked == 1        \* browser sessions left open by calls that have ended

Handlers == 1..NumHandlers

\* --------------------------------------------------------------- text
RECURSIVE FindChar(_, _, _)
\* index of the first occurrence of c in s at or after k, 0 when absent
FindChar(s, c, k) ==
    IF k > Len(s) THEN 0
    ELSE IF s[k] = c THEN k
    ELSE FindChar(s, c, k + 1)

\* str.split(sep)[0]
SplitFirst(s, sep) ==
    LET k == FindChar(s, sep, 1)
    IN  IF k = 0 THEN s ELSE SubSeq(s, 1, k - 1)

\* urllib.parse.quote_plus on one character
QuoteChar(c) ==
    IF c = " " THEN <<"+">>
    ELSE IF c = "&" THEN <<"%", "2", "6">>
    ELSE IF c = "," THEN <<"%", "2", "C">>
    ELSE <<c>>

RECURSIVE quote_plus(_)
quote_plus(s) ==
    IF s = <<>> THEN <<>>
    ELSE QuoteChar(Head(s)) \o quote_plus(Tail(s))

\* google_maps_service.py: query and search_url
search_url_of(name, city) ==
    <<"https://www.google.com/maps/search/">> \o quote_plus(name \o <<" ">> \o city)

\* --------------------------------------------------------------- fractions
RECURSIVE Gcd(_, _)
Gcd(a, b) == IF b = 0 THEN a ELSE Gcd(b, a % b)

Abs(a) == IF a < 0 THEN 0 - a ELSE a

\* the fraction n / d in lowest terms, d > 0
Frac(n, d) ==
    LET g == Gcd(Abs(n), Abs(d))
        s == IF d < 0 THEN 0 - 1 ELSE 1
    IN  [n |-> (s * n) \div g, d |-> (s * d) \div g]

FInt(k) == [n |-> k, d |-> 1]
FAdd(x, y) == Frac(x.n * y.d + y.n * x.d, x.d * y.d)
FMul(x, y) == Frac(x.n * y.n, x.d * y.d)
FDiv(x, y) == Frac(x.n * y.d, x.d * y.n)      \* y.n # 0
FLeq(x, y) == x.n * y.d <= y.n * x.d
FMin(x, y) == IF FLeq(x, y) THEN x ELSE y
FZero(x) == x.n = 0

\* --------------------------------------------------------------- scraper.py
\* link, check-in and check-out of the property cards a page can show: one
\* stay, the same property with another check-in, with another check-out,
\* and another property
Stays ==
    {<<"L1", "D1", "D3">>, <<"L1", "D2", "D3">>, <<"L1", "D1", "D4">>, <<"L2", "D1", "D3">>}

\* text of the title and address elements of the property card of a link
NameOf(link) == IF link = "L1" THEN <<"H", " ", "A">> ELSE <<"B", "&", "B">>
AddressOf(link) == IF link = "L1" THEN <<"P", ",", " ", "X">> ELSE <<"R", " ", "S">>

\* the dict fetch_listing returns (the fields the handler, db and sheets read)
Listing(link, ci, co, rc, canc) ==
    [hotel_id |-> None,
     name |-> NameOf(link),
     link |-> link,
     address |-> AddressOf(link),
     review_score |-> Some(80),
     reviews_count |-> Some(rc),
     cancellation |-> canc,
     nights_adults |-> <<"2", " ", "n", "i", "g", "h", "t", "s">>,
     price |-> <<"9", "0">>,
     checkin |-> ci,
     checkout |-> co]

\* what a rendered page can make fetch_listing return; the review count is
\* 0 when the text of the score block has no count (lines 98-108); the card
\* has no cancellation icon (lines 111-116)
Listings ==
    {Listing(s[1], s[2], s[3], IF s[1] = "L1" THEN 150 ELSE 0, <<"N", "o">>) : s \in Stays}

\* --------------------------------------------------------------- db.py
\* SQL equality: a comparison with NULL is never true
SqlEq(a, b) == a # None /\ b # None /\ a = b

\* the columns of SCHEMA that the dict carries; the others are stored NULL
Row(rec) ==
    [hotel_id |-> rec.hotel_id,
     link |-> Some(rec.link),
     checkin |-> Some(rec.checkin),
     checkout |-> Some(rec.checkout),
     overall_score |-> IF "overall_score" \in DOMAIN rec THEN rec.overall_score ELSE None,
     price_per_night |-> IF "price_per_night" \in DOMAIN rec THEN rec.price_per_night ELSE None]

\* PRIMARY KEY (hotel_id, link, checkin, checkout): a unique index, in which
\* SQLite holds NULLs to be distinct from each other
PrimaryKeyConflict(row, new) ==
    /\ SqlEq(row.hotel_id, new.hotel_id)
    /\ SqlEq(row.link, new.link)
    /\ SqlEq(row.checkin, new.checkin)
    /\ SqlEq(row.checkout, new.checkout)

\* INSERT OR IGNORE INTO listings: the table after db.insert_listing(rec)
insert_listing(tbl, rec) ==
    IF \E row \in BagToSet(tbl) : PrimaryKeyConflict(row, Row(rec))
    THEN tbl
    ELSE tbl (+) SetToBag({Row(rec)})

\* listing_exists with the WHERE clause on the primary key columns
listing_exists_pk(tbl, rec) ==
    \E row \in BagToSet(tbl) : PrimaryKeyConflict(row, Row(rec))

\* listing_exists with the WHERE clause on link alone
listing_exists_link(tbl, rec) ==
    \E row \in BagToSet(tbl) : SqlEq(row.link, Some(rec.link))

\* SELECT 1 FROM listings WHERE link = ? AND checkin = ? AND checkout = ? LIMIT 1
listing_exists(tbl, rec) ==
    \E row \in BagToSet(tbl) :
        /\ SqlEq(row.link, Some(rec.link))
        /\ SqlEq(row.checkin, Some(rec.checkin))
        /\ SqlEq(row.checkout, Some(rec.checkout))

\* --------------------------------------------------------------- sheets.py
BookingThreshold == 100
GoogleThreshold == 200

\* x if x else 0, for a score in tenths or a count
OrZero(x) == IF x = None THEN 0 ELSE x[1]

\* rec.get(key)
Get(rec, key) == IF key \in DOMAIN rec THEN rec[key] ELSE None

\* overall_base with the branch for the booking score alone lacking its
\* factor 0.9 and the branch for the google score alone lacking its factor 2
overall_base_unscaled(rec) ==
    LET booking_score == Frac(OrZero(Get(rec, "review_score")), 10)
        booking_count == OrZero(Get(rec, "reviews_count"))
        google_score == Frac(OrZero(Get(rec, "google_review_score")), 10)
        google_count == OrZero(Get(rec, "google_reviews_count"))
        booking_weight ==
            IF booking_count # 0
            THEN FMin(Frac(booking_count, BookingThreshold), FInt(1)) ELSE FInt(0)
        google_weight ==
            IF google_count # 0
            THEN FMin(Frac(google_count, GoogleThreshold), FInt(1)) ELSE FInt(0)
        wsum == FAdd(booking_weight, google_weight)
    IN  IF ~FZero(booking_score) /\ ~FZero(google_score)
        THEN IF FZero(wsum)
             THEN [error |-> "ZeroDivisionError", value |-> None]
             ELSE [error |-> NULL,
                   value |-> Some(FDiv(FAdd(FMul(booking_score, booking_weight),
                                            FMul(FMul(google_score, FInt(2)), google_weight)),
                                       wsum))]
        ELSE IF ~FZero(booking_score)
        THEN [error |-> NULL, value |-> Some(booking_score)]
        ELSE IF ~FZero(google_score)
        THEN [error |-> NULL, value |-> Some(google_score)]
        ELSE [error |-> NULL, value |-> Some(FInt(0))]

\* lines 376-401 of append_row: the overall score before the cancellation
\* bonus, or the ZeroDivisionError of line 394
overall_base(rec) ==
    LET booking_score == Frac(OrZero(Get(rec, "review_score")), 10)
        booking_count == OrZero(Get(rec, "reviews_count"))
        google_score == Frac(OrZero(Get(rec, "google_review_score")), 10)
        google_count == OrZero(Get(rec, "google_reviews_count"))
        booking_score_adj == IF ~FZero(booking_score) THEN booking_score ELSE FInt(0)
        google_score_adj ==
            IF ~FZero(google_score) THEN FMul(google_score, FInt(2)) ELSE FInt(0)
        booking_weight ==
            IF booking_count # 0
            THEN FMin(Frac(booking_count, BookingThreshold), FInt(1)) ELSE FInt(0)
        google_weight ==
            IF google_count # 0
            THEN FMin(Frac(google_count, GoogleThreshold), FInt(1)) ELSE FInt(0)
        wsum == FAdd(booking_weight, google_weight)
    IN  IF ~FZero(booking_score) /\ ~FZero(google_score)
        THEN IF FZero(wsum)
             THEN [error |-> "ZeroDivisionError", value |-> None]
             ELSE [error |-> NULL,
                   value |-> Some(FDiv(FAdd(FMul(booking_score_adj, booking_weight),
                                       FMul(google_score_adj, google_weight)),
                                  wsum))]
        ELSE IF ~FZero(booking_score)
        THEN [error |-> NULL, value |-> Some(FMul(booking_score_adj, Frac(9, 10)))]
        ELSE IF ~FZero(google_score)
        THEN [error |-> NULL, value |-> Some(google_score_adj)]
        ELSE [error |-> NULL, value |-> Some(FInt(0))]

\* ---- characters, as Python's str methods and the re module treat them
Digits == <<"0", "1", "2", "3", "4", "5", "6", "7", "8", "9">>

\* \d
IsDigit(c) == \E k \in 1..Len(Digits) : Digits[k] = c

DigitVal(c) == (CHOOSE k \in 1..Len(Digits) : Digits[k] = c) - 1

\* \s
IsSpace(c) == c = " "

RECURSIVE Pow10(_)
Pow10(k) == IF k = 0 THEN 1 ELSE 10 * Pow10(k - 1)

RECURSIVE ParseInt(_)
\* int(s) of a string of digits ("" taken as 0 by the callers that allow it)
ParseInt(s) ==
    IF s = <<>> THEN 0
    ELSE 10 * ParseInt(SubSeq(s, 1, Len(s) - 1)) + DigitVal(s[Len(s)])

RECURSIVE RunEnd(_, _, _)
\* the index after the longest run of digits (digit = TRUE) or of white
\* space (digit = FALSE) that starts at k
RunEnd(s, k, digit) ==
    IF k > Len(s) THEN k
    ELSE IF (IF digit THEN IsDigit(s[k]) ELSE IsSpace(s[k])) THEN RunEnd(s, k + 1, digit)
    ELSE k

\* the literal w stands in s at index k
StartsWith(s, k, w) ==
    /\ k + Len(w) - 1 <= Len(s)
    /\ SubSeq(s, k, k + Len(w) - 1) = w

\* w in s
Contains(s, w) == \E k \in 1..(Len(s) + 1) : StartsWith(s, k, w)

\* str.lower() on the letters that occur
LowerChar(c) ==
    IF c = "Y" THEN "y" ELSE IF c = "N" THEN "n" ELSE IF c = "F" THEN "f"
    ELSE IF c = "R" THEN "r" ELSE IF c = "E" THEN "e" ELSE c

lower(s) == [k \in 1..Len(s) |-> LowerChar(s[k])]

RECURSIVE Remove(_, _)
\* s.replace(c, "")
Remove(s, c) ==
    IF s = <<>> THEN <<>>
    ELSE IF Head(s) = c THEN Remove(Tail(s), c)
    ELSE <<Head(s)>> \o Remove(Tail(s), c)

\* round(x, k) as a whole number of 10^-k units: to the nearest, a tie to
\* the even neighbour
Round(x, k) ==
    LET y == FMul(x, FInt(Pow10(k)))
        q == y.n \div y.d
        r == y.n % y.d
    IN  IF 2 * r < y.d THEN q
        ELSE IF 2 * r > y.d THEN q + 1
        ELSE IF q % 2 = 0 THEN q ELSE q + 1

\* ---- lines 366-374 of append_row: price per night
RECURSIVE NightsSearchAny(_, _)
\* NightsSearch that takes the first number of the text, whatever follows it
NightsSearchAny(s, k) ==
    IF k > Len(s) THEN None
    ELSE IF IsDigit(s[k]) THEN Some(ParseInt(SubSeq(s, k, RunEnd(s, k, TRUE) - 1)))
    ELSE NightsSearchAny(s, k + 1)

RECURSIVE NightsSearch(_, _)
\* re.search(r"(\d+)\s+nights", s) from index k on: group 1 as an int, or
\* None when there is no match
NightsSearch(s, k) ==
    IF k > Len(s) THEN None
    ELSE IF IsDigit(s[k])
    THEN LET j == RunEnd(s, k, TRUE)
             e == RunEnd(s, j, FALSE)
         IN  IF e > j /\ StartsWith(s, e, <<"n", "i", "g", "h", "t", "s">>)
             THEN Some(ParseInt(SubSeq(s, k, j - 1)))
             ELSE NightsSearch(s, k + 1)
    ELSE NightsSearch(s, k + 1)

\* float(s) that takes a string it cannot parse as 0.0
float_lenient(s) ==
    LET dots == {k \in 1..Len(s) : s[k] = "."}
    IN  IF \/ \E k \in 1..Len(s) : ~IsDigit(s[k]) /\ s[k] # "."
           \/ Cardinality(dots) > 1
           \/ Len(s) - Cardinality(dots) = 0
        THEN Some(FInt(0))
        ELSE LET d == IF dots = {} THEN Len(s) + 1 ELSE CHOOSE k \in dots : TRUE
                 whole == SubSeq(s, 1, d - 1)
                 part == SubSeq(s, d + 1, Len(s))
             IN  Some(FAdd(FInt(ParseInt(whole)), Frac(ParseInt(part), Pow10(Len(part)))))

\* float(s) for a string of digits, commas and points (what scraper.py line
\* 122 keeps of the price text): the number, or None for the ValueError
float(s) ==
    LET dots == {k \in 1..Len(s) : s[k] = "."}
    IN  IF \/ \E k \in 1..Len(s) : ~IsDigit(s[k]) /\ s[k] # "."
           \/ Cardinality(dots) > 1
           \/ Len(s) - Cardinality(dots) = 0
        THEN None
        ELSE LET d == IF dots = {} THEN Len(s) + 1 ELSE CHOOSE k \in dots : TRUE
                 whole == SubSeq(s, 1, d - 1)
                 part == SubSeq(s, d + 1, Len(s))
             IN  Some(FAdd(FInt(ParseInt(whole)), Frac(ParseInt(part), Pow10(Len(part)))))

\* the price_per_night cell, in hundredths; None is the empty cell that the
\* bare except leaves (ValueError of float, ZeroDivisionError of 0 nights)
price_per_night(rec) ==
    LET m == NightsSearch(rec.nights_adults, 1)
        nights == IF m # None THEN m[1] ELSE 1
        price_val == float(Remove(rec.price, ","))
    IN  IF price_val = None \/ nights = 0 THEN None
        ELSE Some(Round(FDiv(price_val[1], FInt(nights)), 2))

\* ---- lines 403-409 and 429 of append_row: bonus, clamp, round, cell
FMax(x, y) == IF FLeq(x, y) THEN y ELSE x

\* lines 403-406: the free cancellation bonus
bonus(rec) ==
    LET cancellation == lower(rec.cancellation)
    IN  IF cancellation = <<"y", "e", "s">> \/ Contains(cancellation, <<"f", "r", "e", "e">>)
        THEN Frac(1, 2) ELSE FInt(0)

\* overall_score with the bonus added after the clamp
overall_score_bonus_late(rec) ==
    LET base == overall_base(rec)
    IN  IF base.error # NULL THEN base
        ELSE LET clamped == IF ~FZero(base.value[1])
                            THEN FMax(FMin(base.value[1], FInt(10)), FInt(1)) ELSE FInt(0)
                 rounded == Round(FAdd(clamped, bonus(rec)), 1)
             IN  [error |-> NULL, value |-> IF rounded # 0 THEN Some(rounded) ELSE None]

\* the overall score cell, in tenths; None is the empty cell of line 429
overall_score(rec) ==
    LET base == overall_base(rec)
    IN  IF base.error # NULL THEN base
        ELSE LET with_bonus == FAdd(base.value[1], bonus(rec))
                 clamped == IF ~FZero(with_bonus)
                            THEN FMax(FMin(with_bonus, FInt(10)), FInt(1)) ELSE FInt(0)
                 rounded == Round(clamped, 1)
             IN  [error |-> NULL, value |-> IF rounded # 0 THEN Some(rounded) ELSE None]

\* lines 425-442 of append_row: the cells of the row that identify the stay
sheet_row(rec) ==
    [link |-> Some(rec.link),
     checkin |-> Some(rec.checkin),
     checkout |-> Some(rec.checkout)]

\* --------------------------------------------------------------- google_maps_service.py
NumSelectors == 4

\* no_match with a null URL
no_match_null_url(search_url) ==
    [google_review_score |-> None,
     google_reviews_count |-> None,
     google_maps_url |-> None]

\* the dict of lines 122-126 and 192-196
no_match(search_url) ==
    [google_review_score |-> None,
     google_reviews_count |-> None,
     google_maps_url |-> Some(search_url)]

\* the dict of lines 176-180
scraped(score, count, url) ==
    [google_review_score |-> score,
     google_reviews_count |-> count,
     google_maps_url |-> Some(url)]

PlaceUrl == <<"https://www.google.com/maps/place/">>

\* locals of one call of fetch_google_maps_review
GmInit ==
    [search_url |-> None, container |-> None, review_score |-> None,
     reviews_count |-> None, scan |-> None, via |-> NULL, ret |-> None]

\* --------------------------------------------------------------- bot.py
\* a message text is a sequence of words, each a Booking.com URL or not
Tokens == {"url", "txt"}

\* BOOKING_RE matches the URL words and nothing else
IsBookingUrl(t) == t = "url"

RECURSIVE Matches(_, _)
\* the positions at or after k of the words of text that BOOKING_RE matches
Matches(text, k) ==
    IF k > Len(text) THEN <<>>
    ELSE IF IsBookingUrl(text[k]) THEN <<k>> \o Matches(text, k + 1)
    ELSE Matches(text, k + 1)

\* BOOKING_RE.findall(text): the matches from left to right, each named by
\* its position in the text
findall(text) == Matches(text, 1)

Texts == {None} \cup {Some(t) : t \in UNION {[1..n -> Tokens] : n \in 0..MaxMsgLen}}

\* locals of one invocation of handle_message
Idle ==
    [pc |-> "idle", urls |-> <<>>, i |-> 0, data |-> None, maps |-> None,
     exc |-> NULL, raised_by |-> NULL, hit |-> None, replies |-> <<>>, gm |-> GmInit]

Init ==
    /\ store = EmptyBag
    /\ sheet = EmptyBag
    /\ sessions = 0
    /\ received = 0
    /\ hs = [h \in Handlers |-> Idle]
    /\ calc = [op |-> "none"]

\* Application.run_polling hands the updates to the handler one at a time
\* (the builder of main() does not enable concurrent updates)
Sequential(h) ==
    /\ \A g \in Handlers : hs[g].pc = "idle"
    /\ h = 1

Goto(h, loc) == hs' = [hs EXCEPT ![h] = loc]

\* Raise with the exception leaving handle_message: no reply, the loop ends
RaiseEscapes(l, name, by) ==
    [Idle EXCEPT !.pc = "done", !.urls = l.urls, !.i = l.i, !.replies = l.replies,
                 !.exc = name, !.raised_by = by]

\* an exception reaches the except clause of handle_message (lines 66-68),
\* which reads the exception and no other local of the iteration
Raise(l, name, by) ==
    [Idle EXCEPT !.pc = "reply_err", !.urls = l.urls, !.i = l.i, !.replies = l.replies,
                 !.exc = name, !.raised_by = by]

\* lines 40-47: a message arrives; nothing is done without a matching URL
Receive(h) ==
    /\ hs[h].pc = "idle"
    /\ Sequential(h)
    /\ received < MaxMessages
    /\ received' = received + 1
    /\ \E text \in Texts :
         LET urls == IF text = None THEN <<>> ELSE findall(text[1])
         IN  IF urls = <<>>
             THEN hs' = [hs EXCEPT ![h] = Idle]
             ELSE hs' = [hs EXCEPT ![h] = [Idle EXCEPT !.pc = "fl_start", !.urls = urls, !.i = 1]]
    /\ UNCHANGED <<store, sheet, sessions, calc>>

\* scraper.py lines 48-49, outside the try: webdriver.Chrome(...) opens the
\* session or raises; driver.set_window_size(...) then raises with the
\* session open and no finally clause to quit it, or returns
FlStart(h) ==
    /\ hs[h].pc = "fl_start"
    /\ \E out \in {"ok", "chrome_raises", "set_window_size_raises"} :
         IF out = "ok"
         THEN /\ sessions' = sessions + 1
              /\ Goto(h, [hs[h] EXCEPT !.pc = "fl_scrape"])
         ELSE IF out = "chrome_raises"
         THEN /\ sessions' = sessions
              /\ Goto(h, Raise(hs[h], "WebDriverException", "fetch_listing"))
         ELSE /\ sessions < MaxLeaked
              /\ sessions' = sessions + 1
              /\ Goto(h, Raise(hs[h], "WebDriverException", "fetch_listing"))
    /\ UNCHANGED <<store, sheet, received, calc>>

\* scraper.py lines 51-147: the try body and its except clause
FlScrape(h) ==
    /\ hs[h].pc = "fl_scrape"
    /\ \/ \E rec \in Listings :
            Goto(h, [hs[h] EXCEPT !.pc = "fl_quit", !.data = Some(rec)])
       \/ \E e \in {"RuntimeError", "ValueError"} :
            Goto(h, [hs[h] EXCEPT !.pc = "fl_quit", !.exc = e])
    /\ UNCHANGED <<store, sheet, sessions, received, calc>>

\* scraper.py lines 149-150: finally driver.quit(), then return or re-raise
FlQuit(h) ==
    /\ hs[h].pc = "fl_quit"
    /\ sessions' = sessions - 1
    /\ \E ok \in BOOLEAN :
         IF ~ok
         THEN Goto(h, Raise(hs[h], "WebDriverException", "fetch_listing"))
         ELSE IF hs[h].exc # NULL
         THEN Goto(h, Raise(hs[h], hs[h].exc, "fetch_listing"))
         ELSE Goto(h, [hs[h] EXCEPT !.pc = "gm_start"])
    /\ UNCHANGED <<store, sheet, received, calc>>

\* bot.py lines 51-53 and google_maps_service.py lines 29-50
GmStart(h) ==
    /\ hs[h].pc = "gm_start"
    /\ LET city == SplitFirst(hs[h].data[1].address, ",")
           url == search_url_of(hs[h].data[1].name, city)
           l == [hs[h] EXCEPT !.gm = [GmInit EXCEPT !.search_url = Some(url)]]
       IN  \E ok \in BOOLEAN :
             IF ok
             THEN /\ sessions' = sessions + 1
                  /\ Goto(h, [l EXCEPT !.pc = "gm_get"])
             ELSE /\ sessions' = sessions
                  /\ Goto(h, Raise(l, "WebDriverException", "fetch_google_maps_review"))
    /\ UNCHANGED <<store, sheet, received, calc>>

\* google_maps_service.py lines 182-196: except Exception returns no match
GmExcept(l) ==
    [l EXCEPT !.pc = "gm_quit",
              !.gm = [GmInit EXCEPT !.search_url = l.gm.search_url, !.via = "except",
                                    !.ret = Some(no_match(l.gm.search_url[1]))]]

\* lines 54-94: load the search page, get past the consent page if any
GmGet(h) ==
    /\ hs[h].pc = "gm_get"
    /\ \E out \in {"raise", "direct", "consent_accepted", "consent_exhausted"} :
         IF out = "raise"
         THEN Goto(h, GmExcept(hs[h]))
         ELSE Goto(h, [hs[h] EXCEPT !.pc = "gm_ready"])
    /\ UNCHANGED <<store, sheet, sessions, received, calc>>

\* lines 97-98: wait for document.readyState
GmReady(h) ==
    /\ hs[h].pc = "gm_ready"
    /\ \E ok \in BOOLEAN :
         IF ok
         THEN Goto(h, [hs[h] EXCEPT !.pc = "gm_find"])
         ELSE Goto(h, GmExcept(hs[h]))
    /\ UNCHANGED <<store, sheet, sessions, received, calc>>

\* lines 100-126: the selectors in order; k = 0 when none finds an element
GmFind(h) ==
    /\ hs[h].pc = "gm_find"
    /\ \E k \in 0..NumSelectors :
         IF k = 0
         THEN Goto(h, [hs[h] EXCEPT !.pc = "gm_quit", !.gm.via = "no_container",
                                    !.gm.ret = Some(no_match(hs[h].gm.search_url[1]))])
         ELSE Goto(h, [hs[h] EXCEPT !.pc = "gm_score", !.gm.container = Some("element")])
    /\ UNCHANGED <<store, sheet, sessions, received, calc>>

\* lines 129-144: the score from the aria-hidden span, else from the label
GmScore(h) ==
    /\ hs[h].pc = "gm_score"
    /\ \E out \in {"span", "label", "none"} :
         Goto(h, [hs[h] EXCEPT !.pc = "gm_count",
                               !.gm.review_score = IF out = "none" THEN None ELSE Some(45)])
    /\ UNCHANGED <<store, sheet, sessions, received, calc>>

\* lines 146-171: the count from the labels; the parenthesis scan runs in
\* the except clause, that is only when the label scan raised
GmCount(h) ==
    /\ hs[h].pc = "gm_count"
    /\ \E primary \in {"hit", "miss", "raise"}, fallback \in {"hit", "miss", "raise"} :
         LET count == IF primary = "hit" THEN Some(300)
                      ELSE IF primary = "raise" /\ fallback = "hit" THEN Some(300)
                      ELSE None
             scan == IF primary = "raise" THEN <<"fallback", fallback>>
                     ELSE <<"primary", primary>>
         IN  Goto(h, [hs[h] EXCEPT !.pc = "gm_url", !.gm.reviews_count = count,
                                   !.gm.scan = scan])
    /\ UNCHANGED <<store, sheet, sessions, received, calc>>

\* lines 173-180: driver.current_url and the return
GmUrl(h) ==
    /\ hs[h].pc = "gm_url"
    /\ \/ \E url \in {PlaceUrl} :
            Goto(h, [hs[h] EXCEPT !.pc = "gm_quit", !.gm.via = "scraped",
                        !.gm.scan = None, !.gm.review_score = None,
                        !.gm.reviews_count = None, !.gm.container = None,
                        !.gm.ret = Some(scraped(hs[h].gm.review_score, hs[h].gm.reviews_count, url))])
       \/ Goto(h, GmExcept(hs[h]))
    /\ UNCHANGED <<store, sheet, sessions, received, calc>>

\* lines 197-198: finally driver.quit(), the call returns and its locals end
\* (via keeps which return statement ran); then bot.py line 54, data.update(maps)
GmQuit(h) ==
    /\ hs[h].pc = "gm_quit"
    /\ sessions' = sessions - 1
    /\ \E ok \in BOOLEAN :
         IF ok
         THEN Goto(h, [hs[h] EXCEPT !.pc = "check", !.maps = hs[h].gm.ret,
                                    !.data = Some(hs[h].gm.ret[1] @@ hs[h].data[1]),
                                    !.gm = [GmInit EXCEPT !.via = hs[h].gm.via]])
         ELSE Goto(h, Raise(hs[h], "WebDriverException", "fetch_google_maps_review"))
    /\ UNCHANGED <<store, sheet, received, calc>>

\* Check with the insert issued before the branch, left to INSERT OR IGNORE
CheckInsertFirst(h) ==
    /\ hs[h].pc = "check"
    /\ LET found == listing_exists(store, hs[h].data[1])
       IN  /\ Goto(h, [hs[h] EXCEPT !.hit = Some(found),
                                    !.pc = IF found THEN "reply_dup" ELSE "append"])
           /\ store' = insert_listing(store, hs[h].data[1])
    /\ UNCHANGED <<sheet, sessions, received, calc>>

\* bot.py line 56: the duplicate filter decides the branch
Check(h) ==
    /\ hs[h].pc = "check"
    /\ LET found == listing_exists(store, hs[h].data[1])
       IN  Goto(h, [hs[h] EXCEPT !.hit = Some(found),
                                 !.pc = IF found THEN "reply_dup" ELSE "insert"])
    /\ UNCHANGED <<store, sheet, sessions, received, calc>>

\* bot.py line 62
Insert(h) ==
    /\ hs[h].pc = "insert"
    /\ store' = insert_listing(store, hs[h].data[1])
    /\ Goto(h, [hs[h] EXCEPT !.pc = "append"])
    /\ UNCHANGED <<sheet, sessions, received, calc>>

\* bot.py line 63, sheets.py lines 360-450: credentials and service, the
\* derived cells, the append request
AppendRow(h) ==
    /\ hs[h].pc = "append"
    /\ \E api \in {"ok", "credentials", "request"} :
         LET base == overall_base(hs[h].data[1])
         IN  IF api = "credentials"
             THEN /\ sheet' = sheet
                  /\ Goto(h, Raise(hs[h], "RuntimeError", "append_row"))
             ELSE IF base.error # NULL
             THEN /\ sheet' = sheet
                  /\ Goto(h, Raise(hs[h], base.error, "append_row"))
             ELSE IF api = "request"
             THEN /\ sheet' = sheet
                  /\ Goto(h, Raise(hs[h], "HttpError", "append_row"))
             ELSE /\ sheet' = sheet (+) SetToBag({sheet_row(hs[h].data[1])})
                  /\ Goto(h, [hs[h] EXCEPT !.pc = "reply_ok"])
    /\ UNCHANGED <<store, sessions, received, calc>>

\* NextUrl with the loop left after an error reply
NextUrlBreak(l, reply) ==
    IF l.i < Len(l.urls) /\ reply.kind # "error"
    THEN [Idle EXCEPT !.pc = "fl_start", !.urls = l.urls, !.i = l.i + 1,
                      !.replies = Append(l.replies, reply)]
    ELSE [Idle EXCEPT !.pc = "done", !.urls = l.urls, !.i = l.i,
                      !.replies = Append(l.replies, reply)]

\* the for statement of line 47 takes the next URL or ends; the locals of
\* the finished iteration are dead and are cleared
NextUrl(l, reply) ==
    IF l.i < Len(l.urls)
    THEN [Idle EXCEPT !.pc = "fl_start", !.urls = l.urls, !.i = l.i + 1,
                      !.replies = Append(l.replies, reply)]
    ELSE [Idle EXCEPT !.pc = "done", !.urls = l.urls, !.i = l.i,
                      !.replies = Append(l.replies, reply)]

\* bot.py lines 57-60: await reply_text with the duplicate warning
ReplyDup(h) ==
    /\ hs[h].pc = "reply_dup"
    /\ Goto(h, NextUrl(hs[h], [kind |-> "duplicate", url |-> hs[h].urls[hs[h].i]]))
    /\ UNCHANGED <<store, sheet, sessions, received, calc>>

\* bot.py line 64: await reply_text with the success message
ReplyOk(h) ==
    /\ hs[h].pc = "reply_ok"
    /\ Goto(h, NextUrl(hs[h], [kind |-> "saved", url |-> hs[h].urls[hs[h].i]]))
    /\ UNCHANGED <<store, sheet, sessions, received, calc>>

\* bot.py lines 66-68: await reply_text with the error
ReplyErr(h) ==
    /\ hs[h].pc = "reply_err"
    /\ Goto(h, NextUrl(hs[h], [kind |-> "error", url |-> hs[h].urls[hs[h].i]]))
    /\ UNCHANGED <<store, sheet, sessions, received, calc>>

\* handle_message returns
Return(h) ==
    /\ hs[h].pc = "done"
    /\ Goto(h, Idle)
    /\ UNCHANGED <<store, sheet, sessions, received, calc>>

Next ==
    \E h \in Handlers :
        \/ Receive(h)
        \/ FlStart(h)
        \/ FlScrape(h)
        \/ FlQuit(h)
        \/ GmStart(h)
        \/ GmGet(h)
        \/ GmReady(h)
        \/ GmFind(h)
        \/ GmScore(h)
        \/ GmCount(h)
        \/ GmUrl(h)
        \/ GmQuit(h)
        \/ Check(h)
        \/ Insert(h)
        \/ AppendRow(h)
        \/ ReplyDup(h)
        \/ ReplyOk(h)
        \/ ReplyErr(h)
        \/ Return(h)

Spec == Init /\ [][Next]_vars

\* --------------------------------------------------------------- handle_message run concurrently
\* the positions at which handle_message awaits (bot.py lines 57, 64, 67)
\* with an await added between the duplicate check and the insert
AwaitPcsWithInsert == {"reply_dup", "reply_ok", "reply_err", "insert"}

\* the positions at which handle_message awaits: the three reply_text calls
\* (bot.py lines 57, 64, 67); fetch_listing, fetch_google_maps_review, the db
\* calls and append_row are plain blocking calls
AwaitPcs == {"reply_dup", "reply_ok", "reply_err"}

\* the event loop runs one coroutine at a time and switches only at an
\* await: invocation h can take a step when every other one is suspended at
\* an await or has not started
LoopFree(h) == \A g \in Handlers \ {h} : hs[g].pc \in AwaitPcs \cup {"idle"}

\* the message texts of concurrent invocations: no text, or one word. For
\* the interleaving a longer message is a sequence of such invocations: the
\* loop of line 47 goes on after the await of a reply as a new invocation
\* starts after it
OneWordTexts == {None} \cup {Some(<<w>>) : w \in Tokens}

\* lines 40-47 with the updates handed to the handler concurrently: a new
\* invocation starts in the first free slot
Dispatch(h) ==
    /\ hs[h].pc = "idle"
    /\ \A g \in Handlers : g < h => hs[g].pc # "idle"
    /\ received < MaxMessages
    /\ received' = received + 1
    /\ \E text \in OneWordTexts :
         LET urls == IF text = None THEN <<>> ELSE findall(text[1])
         IN  IF urls = <<>>
             THEN hs' = [hs EXCEPT ![h] = Idle]
             ELSE hs' = [hs EXCEPT ![h] = [Idle EXCEPT !.pc = "fl_start", !.urls = urls, !.i = 1]]
    /\ UNCHANGED <<store, sheet, sessions, calc>>

NextConcurrent ==
    \E h \in Handlers :
        /\ LoopFree(h)
        /\ \/ Dispatch(h)
           \/ FlStart(h)
           \/ FlScrape(h)
           \/ FlQuit(h)
           \/ GmStart(h)
           \/ GmGet(h)
           \/ GmReady(h)
           \/ GmFind(h)
           \/ GmScore(h)
           \/ GmCount(h)
           \/ GmUrl(h)
           \/ GmQuit(h)
           \/ Check(h)
           \/ Insert(h)
           \/ AppendRow(h)
           \/ ReplyDup(h)
           \/ ReplyOk(h)
           \/ ReplyErr(h)
           \/ Return(h)

SpecConcurrent == Init /\ [][NextConcurrent]_vars

\* --------------------------------------------------------------- db.py driven directly
\* the dicts handed to db.insert_listing: as fetch_listing builds them
\* (hotel_id None) and with a hotel id
DbRecords ==
    Listings \cup {[r EXCEPT !.hotel_id = Some(7)] : r \in Listings}

DbInsert ==
    /\ BagCardinality(store) < MaxRows
    /\ \E rec \in DbRecords :
         /\ store' = insert_listing(store, rec)
         /\ calc' = [op |-> "insert_listing", rec |-> rec, before |-> store]
    /\ UNCHANGED <<sheet, sessions, received, hs>>

DbExists ==
    /\ \E rec \in DbRecords :
         calc' = [op |-> "listing_exists", rec |-> rec, before |-> store,
                  result |-> listing_exists(store, rec)]
    /\ UNCHANGED <<store, sheet, sessions, received, hs>>

NextDb == DbInsert \/ DbExists

SpecDb == Init /\ [][NextDb]_vars

\* --------------------------------------------------------------- sheets.py driven directly
\* the text of the cancellation field: the two values of scraper.py lines
\* 111-116 and a free text that names free cancellation
Yes == <<"Y", "e", "s">>
No == <<"N", "o">>
FreeText == <<"F", "R", "E", "E">>

\* the dicts handed to sheets.append_row that differ in what the overall
\* score reads: scores in tenths, counts, each of them possibly None
ScoreRecords ==
    {[Listing("L1", "D1", "D3", 0, canc) EXCEPT
            !.review_score = bs, !.reviews_count = bc]
        @@ [google_review_score |-> gs, google_reviews_count |-> gc,
            google_maps_url |-> Some(PlaceUrl)] :
        bs \in {None, Some(0), Some(80), Some(98)},
        bc \in {None} \cup {Some(50 * k) : k \in 0..MaxCountSteps},
        gs \in {None, Some(0), Some(45), Some(50)},
        gc \in {None} \cup {Some(100 * k) : k \in 0..MaxCountSteps},
        canc \in {Yes, No, FreeText}}

\* texts of the price-for-x-nights element
ThreeNights ==
    <<"3", " ", "n", "i", "g", "h", "t", "s", ",", " ", "2", " ", "a", "d", "u", "l", "t", "s">>
TwelveNights == <<"1", "2", " ", " ", "n", "i", "g", "h", "t", "s">>
TwoNights == <<"2", " ", "n", "i", "g", "h", "t", "s">>
OneNight ==
    <<"1", " ", "n", "i", "g", "h", "t", ",", " ", "2", " ", "a", "d", "u", "l", "t", "s">>
TwoAdults == <<"2", " ", "a", "d", "u", "l", "t", "s">>
ZeroNights == <<"0", " ", "n", "i", "g", "h", "t", "s">>

NightsTexts == {ThreeNights, TwelveNights, TwoNights, OneNight, TwoAdults, ZeroNights, <<>>}

\* price texts after scraper.py line 122 (digits, commas and points)
Price1234_50 == <<"1", ",", "2", "3", "4", ".", "5", "0">>
Price90 == <<"9", "0">>
Price100_01 == <<"1", "0", "0", ".", "0", "1">>
Price7 == <<"7", ".">>
PriceHalf == <<".", "5">>
PriceTwoPoints == <<"1", ".", "2", ".", "3">>

PriceTexts ==
    {Price1234_50, Price90, Price100_01, Price7, PriceHalf, PriceTwoPoints,
     <<".">>, <<",">>, <<>>}

\* the dicts handed to sheets.append_row that differ in what the price per
\* night reads
PriceRecords ==
    {[Listing("L1", "D1", "D3", 150, No) EXCEPT !.nights_adults = n, !.price = p]
        @@ [google_review_score |-> Some(45), google_reviews_count |-> Some(300),
            google_maps_url |-> Some(PlaceUrl)] :
        n \in NightsTexts, p \in PriceTexts}

SheetRecords == ScoreRecords \cup PriceRecords

InitSheets ==
    /\ store = EmptyBag
    /\ sheet = EmptyBag
    /\ sessions = 0
    /\ received = 0
    /\ hs = [h \in Handlers |-> Idle]
    /\ calc \in {[op |-> "input", rec |-> r] : r \in SheetRecords}

\* sheets.append_row(rec) with the Sheets API answering: base is the score
\* of lines 376-401, overall_score and price_per_night are the cells of the
\* appended row
SheetsAppendRow ==
    /\ calc.op = "input"
    /\ LET base == overall_base(calc.rec)
           cell == overall_score(calc.rec)
       IN  /\ calc' = [op |-> "append_row", rec |-> calc.rec,
                       error |-> cell.error, base |-> base.value,
                       overall_score |-> cell.value,
                       price_per_night |-> price_per_night(calc.rec)]
           /\ sheet' = IF cell.error = NULL THEN sheet (+) SetToBag({sheet_row(calc.rec)}) ELSE sheet
    /\ UNCHANGED <<store, sessions, received, hs>>

NextSheets == SheetsAppendRow

SpecSheets == InitSheets /\ [][NextSheets]_vars

\* --------------------------------------------------------------- properties
FetchPcs ==
    {"fl_start", "fl_scrape", "fl_quit", "gm_start", "gm_get", "gm_ready",
     "gm_find", "gm_score", "gm_count", "gm_url", "gm_quit"}

\* the link, check-in and check-out of a row; whether a row has those of a dict
RowKey(row) == <<row.link, row.checkin, row.checkout>>
KeyStored(tbl, rec) ==
    \E row \in BagToSet(tbl) : RowKey(row) = <<Some(rec.link), Some(rec.checkin), Some(rec.checkout)>>

Kinds(replies) == [k \in 1..Len(replies) |-> replies[k].kind]

Duplicate(l) == [kind |-> "duplicate", url |-> l.urls[l.i]]
Saved(l) == [kind |-> "saved", url |-> l.urls[l.i]]
Error(l) == [kind |-> "error", url |-> l.urls[l.i]]

NoDuplicateKeys(tbl) ==
    \A row \in BagToSet(tbl) :
        /\ CopiesIn(row, tbl) = 1
        /\ \A other \in BagToSet(tbl) : RowKey(other) = RowKey(row) => other = row

\* C1: the table never holds two rows with the same (link, checkin, checkout);
\* a URL whose extracted (link, checkin, checkout) is already stored goes to
\* the duplicate notice, which is the reply it gets, and writes no row; the
\* success reply is only reached after a miss, with exactly one row of that
\* key stored.
C1_IdempotentDedup ==
    [][/\ NoDuplicateKeys(store')
       /\ \A h \in Handlers :
            LET l == hs[h]
                m == hs'[h]
            IN  /\ (l.pc = "check" /\ KeyStored(store, l.data[1]))
                       => (m.pc = "reply_dup" /\ store' = store)
                /\ l.pc = "reply_dup" => m.replies = Append(l.replies, Duplicate(l))
                /\ m.pc = "reply_ok"
                       => /\ m.hit = Some(FALSE)
                          /\ \E row \in BagToSet(store') :
                               /\ RowKey(row) = <<Some(m.data[1].link), Some(m.data[1].checkin),
                                                  Some(m.data[1].checkout)>>
                               /\ CopiesIn(row, store') = 1]_vars

\* C1 witness: the first message held two URLs with the same extracted key;
\* the first was saved, the second got the duplicate notice, one row is stored.
C1_Witness ==
    \E h \in Handlers :
        /\ hs[h].pc = "done"
        /\ received = 1
        /\ Kinds(hs[h].replies) = <<"saved", "duplicate">>
        /\ BagCardinality(store) = 1

\* C2: the duplicate filter answers true exactly when a stored row has the
\* link, the check-in and the check-out of the candidate; on a miss the record
\* is persisted as a row of its own, and once its spreadsheet row is appended
\* the reply is the success message.
C2_IndependentDateKeys ==
    [][\A h \in Handlers :
            LET l == hs[h]
                m == hs'[h]
            IN  /\ l.pc = "check"
                       => /\ m.hit = Some(KeyStored(store, l.data[1]))
                          /\ m.pc = IF KeyStored(store, l.data[1]) THEN "reply_dup" ELSE "insert"
                /\ l.pc = "insert"
                       => /\ store' = store (+) SetToBag({Row(l.data[1])})
                          /\ KeyStored(store', l.data[1])
                          /\ m.pc = "append"
                /\ (l.pc = "append" /\ sheet' # sheet) => m.pc = "reply_ok"
                /\ l.pc = "reply_ok" => m.replies = Append(l.replies, Saved(l))]_vars

\* C2 witness: one message, two URLs extracted to the same link with another
\* check-in or check-out; both saved, two rows stored.
C2_Witness ==
    \E h \in Handlers :
        /\ hs[h].pc = "done"
        /\ received = 1
        /\ Kinds(hs[h].replies) = <<"saved", "saved">>
        /\ \E r1, r2 \in BagToSet(store) :
             /\ r1.link = r2.link
             /\ r1.checkin # r2.checkin \/ r1.checkout # r2.checkout

\* C3: from the moment the duplicate filter reports a hit until the duplicate
\* notice is sent, neither the table nor the spreadsheet changes, and the
\* notice is the one reply of that URL.
C3_HitWritesNothing ==
    [][\A h \in Handlers :
            LET l == hs[h]
                m == hs'[h]
            IN  /\ (l.pc = "check" /\ m.hit = Some(TRUE))
                       => (store' = store /\ sheet' = sheet /\ m.pc = "reply_dup")
                /\ l.pc = "reply_dup"
                       => /\ store' = store
                          /\ sheet' = sheet
                          /\ l.hit = Some(TRUE)
                          /\ m.replies = Append(l.replies, Duplicate(l))
                          /\ m.pc \in {"fl_start", "done"}]_vars

\* C3 witness: a duplicate notice was sent in the second message while the
\* table and the spreadsheet hold the one row of the first message.
C3_Witness ==
    \E h \in Handlers :
        /\ hs[h].pc = "done"
        /\ received = 2
        /\ Kinds(hs[h].replies) = <<"duplicate">>
        /\ BagCardinality(store) = 1
        /\ BagCardinality(sheet) = 1

\* the number of rows of a bag with the given link, check-in and check-out
KeyCount(bag, key) ==
    BagCardinality([row \in {r \in BagToSet(bag) : RowKey(r) = key} |-> CopiesIn(row, bag)])

\* C4: whenever no URL is being processed, the spreadsheet holds exactly one
\* row for every stored record and no row for a record that is not stored.
C4_SheetMatchesStore ==
    (\A h \in Handlers : hs[h].pc \in {"idle", "done"})
        => /\ \A row \in BagToSet(store) : KeyCount(sheet, RowKey(row)) = 1
           /\ \A row \in BagToSet(sheet) : KeyCount(store, RowKey(row)) >= 1

\* C5: the URLs are processed from left to right; while URL i is being
\* processed exactly the replies of URLs 1..i-1 have been sent, each URL gets
\* one reply, which is a success, a duplicate warning or an error.
C5_OneReplyPerUrlInOrder ==
    \A h \in Handlers :
        LET l == hs[h]
        IN  l.pc # "idle"
                => /\ l.i \in 1..Len(l.urls)
                   /\ Len(l.replies) = IF l.pc = "done" THEN Len(l.urls) ELSE l.i - 1
                   /\ \A k \in 1..Len(l.replies) :
                        /\ l.replies[k].url = l.urls[k]
                        /\ l.replies[k].kind \in {"saved", "duplicate", "error"}
                   /\ \A j, k \in 1..Len(l.urls) : j < k => l.urls[j] < l.urls[k]

\* C5 witness: a second message with two URLs was processed to its end, a
\* duplicate warning for the first URL and a success for the second.
C5_Witness ==
    \E h \in Handlers :
        /\ hs[h].pc = "done"
        /\ hs[h].urls = <<1, 2>>
        /\ received = 2
        /\ Kinds(hs[h].replies) = <<"duplicate", "saved">>

\* C6: a failure raised by fetch_listing or fetch_google_maps_review takes
\* the handler to the except clause of the same URL; from the start of the URL
\* to its error reply neither the table nor the spreadsheet changes; the error
\* reply is sent once and the loop goes on with the next URL.
C6_FailureIsOneErrorReply ==
    [][\A h \in Handlers :
            LET l == hs[h]
                m == hs'[h]
                by == {"fetch_listing", "fetch_google_maps_review"}
            IN  /\ l.pc \in FetchPcs => (store' = store /\ sheet' = sheet)
                /\ (l.pc \in FetchPcs /\ m.pc \notin FetchPcs \cup {"check"})
                       => /\ m.pc = "reply_err"
                          /\ m.raised_by \in by
                          /\ m.i = l.i
                          /\ m.replies = l.replies
                /\ (l.pc = "reply_err" /\ l.raised_by \in by)
                       => /\ store' = store
                          /\ sheet' = sheet
                          /\ m.replies = Append(l.replies, Error(l))
                          /\ IF l.i < Len(l.urls)
                             THEN m.pc = "fl_start" /\ m.i = l.i + 1
                             ELSE m.pc = "done"]_vars

\* C6 witness: in the first message the first URL failed before anything was
\* written and the second URL was saved.
C6_Witness ==
    \E h \in Handlers :
        /\ hs[h].pc = "done"
        /\ received = 1
        /\ Kinds(hs[h].replies) = <<"error", "saved">>
        /\ BagCardinality(store) = 1
        /\ BagCardinality(sheet) = 1

\* C7: fetch_google_maps_review never raises to its caller.
C7_LookupNeverRaises ==
    \A h \in Handlers : hs[h].raised_by # "fetch_google_maps_review"

\* C8: when no selector found the rating widget, the result the lookup hands
\* back has a null score, a null count and the search URL built from name and
\* city, which is not null.
C8_NoWidgetResult ==
    \A h \in Handlers :
        LET l == hs[h]
        IN  (l.gm.via = "no_container" /\ l.pc # "reply_err")
                => LET rec == l.data[1]
                       url == search_url_of(rec.name, SplitFirst(rec.address, ","))
                       res == IF l.pc = "gm_quit" THEN l.gm.ret ELSE l.maps
                   IN  /\ res # None
                       /\ DOMAIN res[1] = {"google_review_score", "google_reviews_count", "google_maps_url"}
                       /\ res[1].google_review_score = None
                       /\ res[1].google_reviews_count = None
                       /\ res[1].google_maps_url = Some(url)
                       /\ res[1].google_maps_url # None

\* C8 witness: the lookup for "H A" in "P" returned after no selector matched.
C8_Witness ==
    \E h \in Handlers :
        /\ hs[h].pc = "check"
        /\ hs[h].gm.via = "no_container"
        /\ hs[h].maps = Some([google_review_score |-> None,
                              google_reviews_count |-> None,
                              google_maps_url |->
                                  Some(<<"https://www.google.com/maps/search/", "H", "+", "A", "+", "P">>)])

\* C9: db.insert_listing of a dict with hotel_id None whose (link, checkin,
\* checkout) is already stored leaves the table as it was.
C9_InsertExistingKeyIsNoOp ==
    (/\ calc.op = "insert_listing"
     /\ calc.rec.hotel_id = None
     /\ KeyStored(calc.before, calc.rec))
        => store = calc.before

Present(x) == x # None /\ x[1] # 0

\* C10: with both scores present and both counts given, append_row ends
\* without an error and its overall score before the bonus is
\* (primary * wp + 2 * secondary * ws) / (wp + ws).
C10_WeightedAverage ==
    (/\ calc.op = "append_row"
     /\ Present(calc.rec.review_score)
     /\ Present(calc.rec.google_review_score)
     /\ calc.rec.reviews_count # None
     /\ calc.rec.google_reviews_count # None)
        => /\ calc.error = NULL
           /\ LET primary == Frac(calc.rec.review_score[1], 10)
                  secondary == Frac(calc.rec.google_review_score[1], 10)
                  wp == FMin(Frac(calc.rec.reviews_count[1], 100), FInt(1))
                  ws == FMin(Frac(calc.rec.google_reviews_count[1], 200), FInt(1))
              IN  FMul(calc.base[1], FAdd(wp, ws))
                      = FAdd(FMul(primary, wp), FMul(FMul(FInt(2), secondary), ws))

\* C11: with the primary score alone (the secondary null or zero) the score
\* before the bonus is the primary score times 0.9, whatever the primary
\* review count; with the secondary score alone it is twice the secondary
\* score, whatever the secondary review count.
C11_SingleScore ==
    calc.op = "append_row"
        => LET bs == calc.rec.review_score
               gs == calc.rec.google_review_score
           IN  /\ (Present(bs) /\ ~Present(gs))
                      => /\ calc.error = NULL
                         /\ calc.base = Some(Frac(9 * bs[1], 100))
               /\ (~Present(bs) /\ Present(gs))
                      => /\ calc.error = NULL
                         /\ calc.base = Some(Frac(2 * gs[1], 10))

\* C11 witness: primary score 8.0 with 50 reviews and no secondary score
\* gave 7.2.
C11_Witness ==
    /\ calc.op = "append_row"
    /\ calc.rec.review_score = Some(80)
    /\ calc.rec.reviews_count = Some(50)
    /\ calc.rec.google_review_score = None
    /\ calc.base = Some(Frac(72, 10))

\* C12: with both scores absent (null or zero) the overall score cell that
\* append_row writes is empty, whatever the cancellation field.
C12_NoScoreIsEmpty ==
    (/\ calc.op = "append_row"
     /\ ~Present(calc.rec.review_score)
     /\ ~Present(calc.rec.google_review_score))
        => calc.overall_score = None

\* the cancellation field carries a free-cancellation indicator
HasIndicator(rec) == rec.cancellation \in {Yes, FreeText}

\* the whole number k is x rounded to the nearest whole number
Near(k, x) == 2 * Abs(k * x.d - x.n) <= x.d

\* C13: when append_row ends without an error, the overall score cell is
\* empty or a whole number of tenths in [1.0, 10.0]; it is the base score
\* plus 0.5 for a free-cancellation indicator, then clamped to [1, 10], then
\* rounded to one decimal (empty when base plus bonus is zero); a base above
\* 9.5 with the bonus gives 10.0.
C13_ClampRoundBonus ==
    (calc.op = "append_row" /\ calc.error = NULL)
        => LET cell == calc.overall_score
               base == calc.base[1]
               v == IF HasIndicator(calc.rec) THEN FAdd(base, Frac(5, 10)) ELSE base
               clamped == IF FLeq(v, FInt(1)) THEN FInt(1)
                          ELSE IF FLeq(FInt(10), v) THEN FInt(10) ELSE v
           IN  /\ cell = None \/ cell[1] \in 10..100
               /\ FZero(v) => cell = None
               /\ ~FZero(v) => (cell # None /\ Near(cell[1], FMul(clamped, FInt(10))))
               /\ (HasIndicator(calc.rec) /\ ~FLeq(base, Frac(95, 10))) => cell = Some(100)

\* C13 witness: a base strictly between 9.5 and 10 with the indicator "Yes"
\* was written as 10.0.
C13_Witness ==
    /\ calc.op = "append_row"
    /\ calc.error = NULL
    /\ calc.rec.cancellation = Yes
    /\ ~FLeq(calc.base[1], Frac(95, 10))
    /\ ~FLeq(FInt(10), calc.base[1])
    /\ calc.overall_score = Some(100)

\* the night count a reader finds in a nights_adults text (None: no count)
NightCountOf(text) ==
    CASE text = ThreeNights -> Some(3)
      [] text = TwelveNights -> Some(12)
      [] text = TwoNights -> Some(2)
      [] text = OneNight -> Some(1)
      [] text = ZeroNights -> Some(0)
      [] OTHER -> None

\* the number a price text stands for (None: not a number)
PriceOf(text) ==
    CASE text = Price1234_50 -> Some(Frac(123450, 100))
      [] text = Price90 -> Some(FInt(90))
      [] text = Price100_01 -> Some(Frac(10001, 100))
      [] text = Price7 -> Some(FInt(7))
      [] text = PriceHalf -> Some(Frac(1, 2))
      [] OTHER -> None

\* C14: the price per night cell is the price, commas removed, divided by
\* the night count of nights_adults (1 when it has none), rounded to two
\* decimals; it is empty when the price is not a number; "3 nights, 2 adults"
\* with "1,234.50" gives 411.50.
C14_PricePerNight ==
    calc.op = "append_row"
        => LET n == NightCountOf(calc.rec.nights_adults)
               v == PriceOf(calc.rec.price)
               ppn == calc.price_per_night
               nights == IF n = None THEN 1 ELSE n[1]
           IN  /\ v = None => ppn = None
               /\ (v # None /\ nights >= 1)
                      => /\ ppn # None
                         /\ Near(ppn[1], FMul(FDiv(v[1], FInt(nights)), FInt(100)))
               /\ (calc.rec.nights_adults = ThreeNights /\ calc.rec.price = Price1234_50)
                      => ppn = Some(41150)

\* C14 witness: "3 nights, 2 adults" with "1,234.50" gave 411.50.
C14_Witness ==
    /\ calc.op = "append_row"
    /\ calc.rec.nights_adults = ThreeNights
    /\ calc.rec.price = Price1234_50
    /\ calc.price_per_night = Some(41150)

\* C15 as stated: the price per night cell is empty whenever nights_adults
\* has no night count or the price is not a number.
C15_UndefinedOnEitherParseFailure ==
    (/\ calc.op = "append_row"
     /\ \/ NightCountOf(calc.rec.nights_adults) = None
        \/ PriceOf(calc.rec.price) = None)
        => calc.price_per_night = None

\* C15 amended: the price per night cell is empty whenever the price is not
\* a number; when nights_adults has no night count the count is 1, and the
\* cell is then the rounded price itself whenever the price is a number.
C15_UndefinedOnPriceParseFailure ==
    calc.op = "append_row"
        => LET v == PriceOf(calc.rec.price)
               ppn == calc.price_per_night
           IN  /\ v = None => ppn = None
               /\ (NightCountOf(calc.rec.nights_adults) = None /\ v # None)
                      => (ppn # None /\ Near(ppn[1], FMul(v[1], FInt(100))))

\* C15 witness: "3 nights, 2 adults" with the price text "1.2.3" left the
\* cell empty.
C15_Witness ==
    /\ calc.op = "append_row"
    /\ calc.rec.nights_adults = ThreeNights
    /\ calc.rec.price = PriceTwoPoints
    /\ calc.price_per_night = None

ScrapePcs ==
    {"fl_scrape", "fl_quit", "gm_get", "gm_ready", "gm_find", "gm_score",
     "gm_count", "gm_url", "gm_quit"}

\* C16: a browser session is open only while fetch_listing or
\* fetch_google_maps_review is running between opening it and its finally
\* clause: at most one session is open at any time, and none is open once the
\* call has returned or raised (in particular when the reply is sent and the
\* next URL is taken).
C16_SessionsReleased ==
    /\ sessions <= 1
    /\ (\A h \in Handlers : hs[h].pc \notin ScrapePcs) => sessions = 0

\* C17: the derived fields are computed before the duplicate check: at the
\* check and at the insert the record carries price_per_night and
\* overall_score, and every stored row has its price per night.
C17_DerivedBeforeCheck ==
    /\ \A h \in Handlers :
         hs[h].pc \in {"check", "insert"}
             => {"price_per_night", "overall_score"} \subseteq DOMAIN hs[h].data[1]
    /\ \A row \in BagToSet(store) : row.price_per_night # None

\* C18: once the rating widget is found, the count is reported as null only
\* after the parenthesis scan has run: a label scan that yields no count is
\* followed by the parenthesis scan.
C18_FallbackBeforeNull ==
    \A h \in Handlers :
        (hs[h].pc = "gm_url" /\ hs[h].gm.reviews_count = None)
            => hs[h].gm.scan[1] = "fallback"

\* C19: with invocations interleaved at their awaits, every step taken while
\* an invocation stands between its duplicate check (answered false) and its
\* insert is that insert: the key is still not stored, the row is added, no
\* other invocation moves; and the table never holds a key twice.
C19_CheckInsertAtomic ==
    [][/\ \A h \in Handlers :
            hs[h].pc = "insert"
                => /\ hs[h].hit = Some(FALSE)
                   /\ ~KeyStored(store, hs[h].data[1])
                   /\ store' = store (+) SetToBag({Row(hs[h].data[1])})
                   /\ hs'[h].pc = "append"
                   /\ \A g \in Handlers \ {h} : hs'[g] = hs[g]
       /\ NoDuplicateKeys(store')]_vars

\* C19 witness: one invocation stands between its check and its insert
\* while another is suspended at the reply for a URL it saved.
C19_Witness ==
    \E h, g \in Handlers :
        /\ hs[h].pc = "insert"
        /\ hs[g].pc = "reply_ok"

====
